---- MODULE Spec2Model ----
(***************************************************************************)
(* A model of the mini-MUD engine of src/src/main.rs: the World (rooms and *)
(* items), the Player, the command handlers of Game, the command loop and  *)
(* the save/load codec writing save.json.                                  *)
(*                                                                         *)
(* Strings that the code builds or takes apart are modelled by what the    *)
(* code does to them: to_lowercase is the operator Lower, format! of a     *)
(* lock tag builds a sequence of chunks <<room, ":", dir>> and split(':')  *)
(* takes such a sequence apart again, the JSON text of a snapshot is a     *)
(* sequence of tokens written by to_string_pretty and read back by         *)
(* from_str.                                                               *)
(***************************************************************************)
EXTENDS Naturals, Sequences, FiniteSets, TLC

VARIABLES
    world,      \* which World was handed to Game::new (never changes afterwards)
    player,     \* Game.player: [name, location, inventory]
    rooms,      \* the mutable part of Game.world.rooms: room key -> [items, flags]
    running,    \* Game.running
    pc,         \* where the process is: "loop", "done", "panicked", "crashed"
    file,       \* the content of save.json: NoFile or a sequence of tokens
    out,        \* the lines printed by the last iteration of the command loop
    res,        \* the Result the last save/load handler returned: "none", "ok", "err"
    stdin,      \* how many lines are left on the standard input
    saved       \* history: <<>> or <<[player, rooms]>> as they were when save last
                \* returned Ok (not read by any handler)

vars == <<world, player, rooms, running, pc, file, out, res, stdin, saved>>

(***************************************************************************)
(* Bounds of the model.                                                    *)
(***************************************************************************)
\* the lines typed in a run from the authored world with no save.json
MaxCmds == 6
\* the lines typed in a run from one of the worlds of Worlds
MaxCmdsW == 4
\* the lines typed in a run that finds a save.json written by someone else
MaxCmdsEnv == 3

(***************************************************************************)
(* Small helpers on sequences and maps.                                    *)
(***************************************************************************)
Range(s) == {s[i] : i \in 1..Len(s)}

\* Iterator::position: the index of the first element equal to x, 0 when none
Position(s, x) ==
    IF \E i \in 1..Len(s) : s[i] = x
    THEN CHOOSE i \in 1..Len(s) : s[i] = x /\ \A j \in 1..(i - 1) : s[j] # x
    ELSE 0

\* a remove that leaves the element where it is
RemoveNothing(s, idx) == s

\* Vec::remove(idx)
RemoveAt(s, idx) == [i \in 1..(Len(s) - 1) |-> IF i < idx THEN s[i] ELSE s[i + 1]]

\* HashMap::get(k).unwrap_or(false) on a map of booleans
FlagOr(flags, k) == IF k \in DOMAIN flags THEN flags[k] ELSE FALSE

EmptyMap == [x \in {} |-> TRUE]

Reverse(s) == [i \in 1..Len(s) |-> s[Len(s) + 1 - i]]

(***************************************************************************)
(* Strings.  to_lowercase on the tokens the model types in; format! of a   *)
(* flag name and of an unlock tag; split(':').                             *)
(***************************************************************************)
Lower(s) ==
    CASE s = "TORCH" -> "torch"
      [] s = "Antorcha" -> "antorcha"
      [] s = "NORTH" -> "north"
      [] OTHER -> s

\* format!("locked_{direction}")
LockedFlag(direction) ==
    CASE direction = "north" -> "locked_north"
      [] direction = "south" -> "locked_south"
      [] direction = "east" -> "locked_east"
      [] direction = "west" -> "locked_west"
      [] direction = "up" -> "locked_up"
      [] direction = "down" -> "locked_down"
      [] OTHER -> "locked_"

\* format!("{}:{}", key, direction): a string is a sequence of chunks, ":" a chunk
UnlockTag(key, direction) == <<key, ":", direction>>

\* str::split(':'): the parts between the ":" chunks (n colons give n + 1 parts)
RECURSIVE SplitColon(_)
SplitColon(tag) ==
    IF \A i \in 1..Len(tag) : tag[i] # ":"
    THEN <<tag>>
    ELSE LET i == Position(tag, ":")
         IN  <<SubSeq(tag, 1, i - 1)>> \o SplitColon(SubSeq(tag, i + 1, Len(tag)))

\* a part of a split string as one key (the parts of the model are single chunks)
PartKey(part) == IF Len(part) = 1 THEN part[1] ELSE ""

(***************************************************************************)
(* The World.  build_world is the authored world of main(); the two other  *)
(* worlds are worlds of the same shape handed to Game::new, with other     *)
(* item effects (a light that also unlocks, a key whose tag has no colon,  *)
(* keys for another room and for another direction).                       *)
(***************************************************************************)
WorldRooms ==
    [cave_entrance |->
        [key |-> "cave_entrance", name |-> "Entrada de la Cueva",
         desc |-> "El viento helado sopla tras de ti.",
         exits |-> [d \in {"north"} |-> "narrow_passage"],
         items |-> <<"note", "torch">>,
         flags |-> EmptyMap],
     narrow_passage |->
        [key |-> "narrow_passage", name |-> "Pasadizo Estrecho",
         desc |-> "Las paredes se cierran a tu alrededor.",
         exits |-> [d \in {"south", "north"} |->
                      IF d = "south" THEN "cave_entrance" ELSE "ancient_chamber"],
         items |-> <<"key_gate">>,
         flags |-> [f \in {"dark", "locked_north"} |-> TRUE]],
     ancient_chamber |->
        [key |-> "ancient_chamber", name |-> "Camara Ancestral",
         desc |-> "Una sala amplia con grabados antiguos.",
         exits |-> [d \in {"south"} |-> "narrow_passage"],
         items |-> <<"altar">>,
         flags |-> EmptyMap]]

Lights == [e \in {"lights"} |-> <<"true">>]
Unlocks(tag) == [e \in {"unlocks"} |-> tag]

build_world ==
    [rooms |-> WorldRooms,
     items |->
        [torch |-> [key |-> "torch", name |-> "antorcha", portable |-> TRUE,
                    effects |-> Lights],
         key_gate |-> [key |-> "key_gate", name |-> "llave vieja", portable |-> TRUE,
                       effects |-> Unlocks(UnlockTag("narrow_passage", "north"))],
         note |-> [key |-> "note", name |-> "nota arrugada", portable |-> TRUE,
                   effects |-> EmptyMap],
         altar |-> [key |-> "altar", name |-> "altar de piedra", portable |-> FALSE,
                    effects |-> EmptyMap]]]

\* the authored world with a torch that also unlocks the gate, a note whose
\* unlock tag has no colon and a key_gate whose only effect the engine does not know
LampWorld ==
    [build_world EXCEPT
        !.items.torch.effects =
            [e \in {"lights", "unlocks"} |->
                IF e = "lights" THEN <<"true">> ELSE UnlockTag("narrow_passage", "north")],
        !.items.note.effects = Unlocks(<<"narrow_passage">>),
        !.items.key_gate.effects = [e \in {"glows"} |-> <<"true">>]]

\* the authored world with a note that is a key for another room, a torch that is
\* no light but a key for another direction, and a key_gate of three parts
KeyWorld ==
    [build_world EXCEPT
        !.items.note.effects = Unlocks(UnlockTag("cave_entrance", "north")),
        !.items.torch.effects = Unlocks(UnlockTag("narrow_passage", "south")),
        !.items.key_gate.effects = Unlocks(<<"narrow_passage", ":", "north", ":", "x">>)]

WorldOf(w) ==
    CASE w = "authored" -> build_world
      [] w = "lamp" -> LampWorld
      [] w = "keys" -> KeyWorld

Worlds == {"authored", "lamp", "keys"}

W == WorldOf(world)

(***************************************************************************)
(* Printed lines.  A line is its fixed text, the values formatted into it  *)
(* (in order) and, for the exits line, the set of the exit directions      *)
(* (HashMap::keys() has no defined order).                                 *)
(***************************************************************************)
L(msg) == [msg |-> msg, arg |-> <<>>, keys |-> {}]
LA(msg, arg) == [msg |-> msg, arg |-> arg, keys |-> {}]
LK(msg, keys) == [msg |-> msg, arg |-> <<>>, keys |-> keys]

MsgDark == "Esta muy oscuro. Apenas distingues siluetas."
MsgNoExits == "Salidas: ninguna"
MsgExits == "Salidas:"
MsgSeeHere == "Ves aqui:"
MsgGoUsage == "Uso: go <north|south|east|west|up|down>"
MsgNoExit == "No hay salida en esa direccion."
MsgBlocked == "La salida esta bloqueada."
MsgGoUnlocked == "Usas la llave y desbloqueas la salida."
MsgTakeUsage == "Uso: take <objeto>"
MsgNotHere == "No ves eso aqui."
MsgNotPortable == "No puedes cargar eso."
MsgTook == "Tomaste"
MsgDropUsage == "Uso: drop <objeto>"
MsgNotCarried == "No llevas eso."
MsgDropped == "Dejaste"
MsgCarryNothing == "No llevas nada."
MsgCarry == "Llevas:"
MsgUseUsage == "Uso: use <objeto>"
MsgRaise == "Alzas. La luz revela tu entorno."
MsgUseUnlocked == "Usas y desbloqueas la salida"
MsgNothingToUnlock == "Aqui no hay nada que desbloquear."
MsgNotWorkHere == "No parece servir aqui."
MsgBadKey == "La llave no esta bien configurada."
MsgNothing == "No pasa nada."
MsgHelp == "Comandos:"
MsgSaved == "Juego guardado en save.json"
MsgLoaded == "Juego cargado desde save.json"
MsgNoFile == "No existe el archivo save.json"
MsgParseError == "serde_json error"
MsgReadError == "io error"
MsgBye == "Hasta la proxima!"
MsgUnknown == "No entiendo ese comando. Escribe 'help'."
MsgLeaving == "Saliendo"
MsgWelcome == "Bienvenido al mini-MUD (offline). Escribe 'help' para ver comandos."

(***************************************************************************)
(* The handlers of Game, as functions of the player p and the rooms rs.    *)
(* A handler yields the new player and rooms, the lines it printed and     *)
(* whether it panicked (expect("room not found"), indexing a missing key). *)
(***************************************************************************)
Result(p, rs, lines) == [player |-> p, rooms |-> rs, out |-> lines, panic |-> FALSE]
Panic(p, rs, lines) == [player |-> p, rooms |-> rs, out |-> lines, panic |-> TRUE]

\* Game::current_room: None (a panic of the caller) when the location is no room
RoomExists(p, rs) == p.location \in DOMAIN rs

\* the names of the items of a list that the world knows (filter_map)
RECURSIVE ItemNames(_)
ItemNames(list) ==
    IF list = <<>> THEN <<>>
    ELSE (IF Head(list) \in DOMAIN W.items THEN <<W.items[Head(list)].name>> ELSE <<>>)
         \o ItemNames(Tail(list))

\* the loop shared by find_item_here and find_item_inventory
FindItem(list, token) ==
    LET tok == Lower(token)
        hits == {i \in 1..Len(list) :
                    /\ list[i] \in DOMAIN W.items
                    /\ \/ Lower(W.items[list[i]].key) = tok
                       \/ Lower(W.items[list[i]].name) = tok}
    IN  IF hits = {} THEN <<>>
        ELSE <<W.items[list[CHOOSE i \in hits : \A j \in hits : i <= j]].key>>

find_item_here(p, rs, token) == FindItem(rs[p.location].items, token)

find_item_inventory(p, token) == FindItem(p.inventory, token)

\* a has_light that takes any carried item for a light
has_light_any_item(p) == p.inventory # <<>>

has_light(p) ==
    \E i \in 1..Len(p.inventory) :
        /\ p.inventory[i] \in DOMAIN W.items
        /\ "lights" \in DOMAIN W.items[p.inventory[i]].effects

ExitsLine(exits) ==
    IF DOMAIN exits = {} THEN L(MsgNoExits) ELSE LK(MsgExits, DOMAIN exits)

\* cmd_look, for a player whose room exists
cmd_look(p, rs) ==
    LET room == rs[p.location]
        static == W.rooms[p.location]
        is_dark == FlagOr(room.flags, "dark")
    IN  IF is_dark /\ ~has_light(p)
        THEN <<L(MsgDark), ExitsLine(static.exits)>>
        ELSE <<LA("name", <<static.name>>), LA("underline", <<static.name>>),
               LA("desc", <<static.desc>>)>>
             \o (IF room.items # <<>> THEN <<LA(MsgSeeHere, ItemNames(room.items))>>
                 ELSE <<>>)
             \o <<ExitsLine(static.exits)>>

\* a handler that ends in cmd_look: look panics when the location is no room
ThenLook(p, rs, lines) ==
    IF RoomExists(p, rs) THEN Result(p, rs, lines \o cmd_look(p, rs))
    ELSE Panic(p, rs, lines)

\* an any() that takes every key for a match
can_unlock_any_key(p, key, direction) ==
    \E i \in 1..Len(p.inventory) :
        /\ p.inventory[i] \in DOMAIN W.items
        /\ "unlocks" \in DOMAIN W.items[p.inventory[i]].effects

\* the any() of cmd_go: an inventory item whose unlocks effect is exactly the tag
can_unlock(p, key, direction) ==
    \E i \in 1..Len(p.inventory) :
        /\ p.inventory[i] \in DOMAIN W.items
        /\ "unlocks" \in DOMAIN W.items[p.inventory[i]].effects
        /\ W.items[p.inventory[i]].effects["unlocks"] = UnlockTag(key, direction)

\* an unlock that resets every flag of the room
ClearFlagsOfRoom(rs, key, flag) ==
    IF key \in DOMAIN rs
    THEN [rs EXCEPT ![key].flags = [f \in DOMAIN rs[key].flags \cup {flag} |-> FALSE]]
    ELSE rs

\* a flag cleared on a copy of the room: the world keeps the flag
ClearFlagOnCopy(rs, key, flag) == rs

\* HashMap::insert(flag, false) on the flags of room key, when the room exists
ClearFlag(rs, key, flag) ==
    IF key \in DOMAIN rs
    THEN [rs EXCEPT ![key].flags =
            [f \in DOMAIN rs[key].flags \cup {flag} |->
                IF f = flag THEN FALSE ELSE rs[key].flags[f]]]
    ELSE rs

\* a go that unlocks the exit and stays: walking through takes a second go
cmd_go_unlock_stays(p, rs, dir) ==
    IF dir = <<>> THEN Result(p, rs, <<L(MsgGoUsage)>>)
    ELSE
    LET direction == Lower(dir[1])
        cur == rs[p.location]
        exits == W.rooms[p.location].exits
        flag == LockedFlag(direction)
    IN  IF direction \notin DOMAIN exits THEN Result(p, rs, <<L(MsgNoExit)>>)
        ELSE IF FlagOr(cur.flags, flag)
        THEN IF ~can_unlock(p, W.rooms[p.location].key, direction)
             THEN Result(p, rs, <<L(MsgBlocked)>>)
             ELSE Result(p, ClearFlag(rs, W.rooms[p.location].key, flag),
                         <<L(MsgGoUnlocked)>>)
        ELSE ThenLook([p EXCEPT !.location = exits[direction]], rs, <<>>)

cmd_go(p, rs, dir) ==
    IF dir = <<>> THEN Result(p, rs, <<L(MsgGoUsage)>>)
    ELSE
    LET direction == Lower(dir[1])
        cur == rs[p.location]
        exits == W.rooms[p.location].exits
        flag == LockedFlag(direction)
    IN  IF direction \notin DOMAIN exits THEN Result(p, rs, <<L(MsgNoExit)>>)
        ELSE IF FlagOr(cur.flags, flag)
        THEN IF ~can_unlock(p, W.rooms[p.location].key, direction)
             THEN Result(p, rs, <<L(MsgBlocked)>>)
             ELSE ThenLook([p EXCEPT !.location = exits[direction]],
                           ClearFlag(rs, W.rooms[p.location].key, flag),
                           <<L(MsgGoUnlocked)>>)
        ELSE ThenLook([p EXCEPT !.location = exits[direction]], rs, <<>>)

\* a take that removes the item from the room before it checks portable
cmd_take_remove_first(p, rs, tok) ==
    IF tok = <<>> THEN Result(p, rs, <<L(MsgTakeUsage)>>)
    ELSE
    LET found == find_item_here(p, rs, tok[1])
    IN  IF found = <<>> THEN Result(p, rs, <<L(MsgNotHere)>>)
        ELSE
        LET key == found[1]
            portable == IF key \in DOMAIN W.items THEN W.items[key].portable ELSE FALSE
            idx == Position(rs[p.location].items, key)
            left == IF idx # 0 THEN RemoveAt(rs[p.location].items, idx)
                    ELSE rs[p.location].items
        IN  IF ~portable
            THEN Result(p, [rs EXCEPT ![p.location].items = left], <<L(MsgNotPortable)>>)
            ELSE Result([p EXCEPT !.inventory = Append(p.inventory, key)],
                        [rs EXCEPT ![p.location].items = left],
                        <<LA(MsgTook, <<W.items[key].name>>)>>)

cmd_take(p, rs, tok) ==
    IF tok = <<>> THEN Result(p, rs, <<L(MsgTakeUsage)>>)
    ELSE
    LET found == find_item_here(p, rs, tok[1])
    IN  IF found = <<>> THEN Result(p, rs, <<L(MsgNotHere)>>)
        ELSE
        LET key == found[1]
            portable == IF key \in DOMAIN W.items THEN W.items[key].portable ELSE FALSE
            idx == Position(rs[p.location].items, key)
            left == IF idx # 0 THEN RemoveAt(rs[p.location].items, idx)
                    ELSE rs[p.location].items
        IN  IF ~portable THEN Result(p, rs, <<L(MsgNotPortable)>>)
            ELSE Result([p EXCEPT !.inventory = Append(p.inventory, key)],
                        [rs EXCEPT ![p.location].items = left],
                        <<LA(MsgTook, <<W.items[key].name>>)>>)

\* a drop that puts the item in front of the room's items
cmd_drop_in_front(p, rs, tok) ==
    IF tok = <<>> THEN Result(p, rs, <<L(MsgDropUsage)>>)
    ELSE
    LET found == find_item_inventory(p, tok[1])
    IN  IF found = <<>> THEN Result(p, rs, <<L(MsgNotCarried)>>)
        ELSE
        LET key == found[1]
            idx == Position(p.inventory, key)
            left == IF idx # 0 THEN RemoveAt(p.inventory, idx) ELSE p.inventory
        IN  Result([p EXCEPT !.inventory = left],
                   [rs EXCEPT ![p.location].items = <<key>> \o rs[p.location].items],
                   <<LA(MsgDropped, <<W.items[key].name>>)>>)

cmd_drop(p, rs, tok) ==
    IF tok = <<>> THEN Result(p, rs, <<L(MsgDropUsage)>>)
    ELSE
    LET found == find_item_inventory(p, tok[1])
    IN  IF found = <<>> THEN Result(p, rs, <<L(MsgNotCarried)>>)
        ELSE
        LET key == found[1]
            idx == Position(p.inventory, key)
            left == IF idx # 0 THEN RemoveAt(p.inventory, idx) ELSE p.inventory
        IN  Result([p EXCEPT !.inventory = left],
                   [rs EXCEPT ![p.location].items = Append(rs[p.location].items, key)],
                   <<LA(MsgDropped, <<W.items[key].name>>)>>)

cmd_inventory(p, rs) ==
    IF p.inventory = <<>> THEN Result(p, rs, <<L(MsgCarryNothing)>>)
    ELSE Result(p, rs, <<LA(MsgCarry, ItemNames(p.inventory))>>)

\* a use that locks an open exit again instead of reporting nothing to unlock
use_unlock_toggle(p, rs, key, tag) ==
    LET parts == SplitColon(tag)
    IN  IF Len(parts) # 2 THEN Result(p, rs, <<L(MsgBadKey)>>)
        ELSE
        LET rkey == PartKey(parts[1])
            dir == PartKey(parts[2])
            flag == LockedFlag(dir)
        IN  IF rkey # W.rooms[p.location].key
            THEN Result(p, rs, <<L(MsgNotWorkHere)>>)
            ELSE IF FlagOr(rs[p.location].flags, flag)
            THEN Result(p, ClearFlag(rs, rkey, flag),
                        <<LA(MsgUseUnlocked, <<W.items[key].name, dir>>)>>)
            ELSE Result(p, [rs EXCEPT ![p.location].flags =
                                [f \in DOMAIN rs[p.location].flags \cup {flag} |->
                                    IF f = flag THEN TRUE ELSE rs[p.location].flags[f]]],
                        <<L(MsgNothingToUnlock)>>)

\* a use that does not look at which room the key is for
use_unlock_any_room(p, rs, key, tag) ==
    LET parts == SplitColon(tag)
    IN  IF Len(parts) # 2 THEN Result(p, rs, <<L(MsgBadKey)>>)
        ELSE
        LET rkey == PartKey(parts[1])
            dir == PartKey(parts[2])
            flag == LockedFlag(dir)
        IN  IF rkey \in DOMAIN rs /\ FlagOr(rs[rkey].flags, flag)
            THEN Result(p, ClearFlag(rs, rkey, flag),
                        <<LA(MsgUseUnlocked, <<W.items[key].name, dir>>)>>)
            ELSE Result(p, rs, <<L(MsgNothingToUnlock)>>)

\* the unlocks branch of cmd_use, for the carried item key with the unlock tag
use_unlock(p, rs, key, tag) ==
    LET parts == SplitColon(tag)
    IN  IF Len(parts) # 2 THEN Result(p, rs, <<L(MsgBadKey)>>)
        ELSE
        LET rkey == PartKey(parts[1])
            dir == PartKey(parts[2])
            flag == LockedFlag(dir)
        IN  IF rkey # W.rooms[p.location].key
            THEN Result(p, rs, <<L(MsgNotWorkHere)>>)
            ELSE IF FlagOr(rs[p.location].flags, flag)
            THEN Result(p, ClearFlag(rs, rkey, flag),
                        <<LA(MsgUseUnlocked, <<W.items[key].name, dir>>)>>)
            ELSE Result(p, rs, <<L(MsgNothingToUnlock)>>)

\* a use that looks at unlocks before it looks at lights
cmd_use_unlocks_first(p, rs, tok) ==
    IF tok = <<>> THEN Result(p, rs, <<L(MsgUseUsage)>>)
    ELSE
    LET found == find_item_inventory(p, tok[1])
    IN  IF found = <<>> THEN Result(p, rs, <<L(MsgNotCarried)>>)
        ELSE
        LET key == found[1]
            effects == W.items[key].effects
        IN  IF "unlocks" \in DOMAIN effects
            THEN use_unlock(p, rs, key, effects["unlocks"])
            ELSE IF "lights" \in DOMAIN effects
            THEN ThenLook(p, rs, <<LA(MsgRaise, <<W.items[key].name>>)>>)
            ELSE Result(p, rs, <<L(MsgNothing)>>)

cmd_use(p, rs, tok) ==
    IF tok = <<>> THEN Result(p, rs, <<L(MsgUseUsage)>>)
    ELSE
    LET found == find_item_inventory(p, tok[1])
    IN  IF found = <<>> THEN Result(p, rs, <<L(MsgNotCarried)>>)
        ELSE
        LET key == found[1]
            effects == W.items[key].effects
        IN  IF "lights" \in DOMAIN effects
            THEN ThenLook(p, rs, <<LA(MsgRaise, <<W.items[key].name>>)>>)
            ELSE IF "unlocks" \in DOMAIN effects
            THEN use_unlock(p, rs, key, effects["unlocks"])
            ELSE Result(p, rs, <<L(MsgNothing)>>)

cmd_help(p, rs) == Result(p, rs, <<L(MsgHelp)>>)

(***************************************************************************)
(* The codec.  The text of save.json is a sequence of tokens: <<"p", c>>   *)
(* a bracket or brace, <<"s", x>> a string, <<"b", x>> a boolean literal.  *)
(* to_string_pretty writes the fields of a struct in declaration order and *)
(* the entries of a HashMap in its iteration order, which is any order.    *)
(***************************************************************************)
NoFile == <<<<"absent", "">>>>

Punct(c) == <<"p", c>>
Str(x) == <<"s", x>>
Bool(b) == <<"b", IF b THEN "true" ELSE "false">>

\* the keys of a map, one after the other
RECURSIVE SetToSeq(_)
SetToSeq(S) ==
    IF S = {} THEN <<>>
    ELSE LET x == CHOOSE x \in S : TRUE IN <<x>> \o SetToSeq(S \ {x})

\* the order in which a HashMap with key set S is iterated: any order; the model
\* tries one order and its reverse, picked by rev (the seed of the hasher)
HashOrder(S, rev) == IF rev THEN Reverse(SetToSeq(S)) ELSE SetToSeq(S)

RECURSIVE Flatten(_)
Flatten(ss) == IF ss = <<>> THEN <<>> ELSE Head(ss) \o Flatten(Tail(ss))

SerStrings(list) ==
    <<Punct("[")>> \o [i \in 1..Len(list) |-> Str(list[i])] \o <<Punct("]")>>

SerFlags(flags, order) ==
    <<Punct("{")>>
    \o Flatten([i \in 1..Len(order) |-> <<Str(order[i]), Bool(flags[order[i]])>>])
    \o <<Punct("}")>>

\* RoomState { items, flags }
SerRoomState(st, order) ==
    <<Punct("{"), Str("items")>> \o SerStrings(st.items)
    \o <<Str("flags")>> \o SerFlags(st.flags, order) \o <<Punct("}")>>

\* Player { name, location, inventory }
SerPlayer(p) ==
    <<Punct("{"), Str("name"), Str(p.name), Str("location"), Str(p.location),
      Str("inventory")>> \o SerStrings(p.inventory) \o <<Punct("}")>>

\* SaveData { player, rooms }, the maps in the iteration order of the seed rev
to_string_pretty(snapshot, rev) ==
    LET ro == HashOrder(DOMAIN snapshot.rooms, rev)
    IN  <<Punct("{"), Str("player")>> \o SerPlayer(snapshot.player)
        \o <<Str("rooms"), Punct("{")>>
        \o Flatten([i \in 1..Len(ro) |->
                      <<Str(ro[i])>>
                      \o SerRoomState(snapshot.rooms[ro[i]],
                                      HashOrder(DOMAIN snapshot.rooms[ro[i]].flags, rev))])
        \o <<Punct("}"), Punct("}")>>

\* a snapshot that leaves the flags out
SnapshotNoFlags(p, rs) ==
    [player |-> p,
     rooms |-> [k \in DOMAIN rs |-> [items |-> rs[k].items, flags |-> EmptyMap]]]

\* the snapshot save builds: the player and, per room, its items and flags
Snapshot(p, rs) ==
    [player |-> p,
     rooms |-> [k \in DOMAIN rs |-> [items |-> rs[k].items, flags |-> rs[k].flags]]]

(***************************************************************************)
(* Reading JSON: the tokens to a value [t, v] (t one of "str", "bool",     *)
(* "arr", "obj"; the members of an object in their order, duplicates       *)
(* kept), then the value to a SaveData the way the derived Deserialize     *)
(* does: unknown fields skipped, a missing or duplicate field an error, a  *)
(* struct also read from an array of its fields, the last entry of a map   *)
(* key winning.                                                            *)
(***************************************************************************)
Fail == [ok |-> FALSE, val |-> <<>>, rest |-> <<>>]
Parsed(val, rest) == [ok |-> TRUE, val |-> val, rest |-> rest]

RECURSIVE ParseValue(_), ParseMembers(_, _), ParseElems(_, _)
ParseValue(ts) ==
    IF ts = <<>> THEN Fail
    ELSE LET t == Head(ts)
         IN  CASE t[1] = "s" -> Parsed([t |-> "str", v |-> t[2]], Tail(ts))
               [] t[1] = "b" -> Parsed([t |-> "bool", v |-> t[2]], Tail(ts))
               [] t = Punct("{") -> ParseMembers(Tail(ts), <<>>)
               [] t = Punct("[") -> ParseElems(Tail(ts), <<>>)
               [] OTHER -> Fail

ParseMembers(ts, acc) ==
    IF ts = <<>> THEN Fail
    ELSE IF Head(ts) = Punct("}") THEN Parsed([t |-> "obj", v |-> acc], Tail(ts))
    ELSE IF Head(ts)[1] # "s" THEN Fail
    ELSE LET r == ParseValue(Tail(ts))
         IN  IF ~r.ok THEN Fail
             ELSE ParseMembers(r.rest, Append(acc, [k |-> Head(ts)[2], v |-> r.val]))

ParseElems(ts, acc) ==
    IF ts = <<>> THEN Fail
    ELSE IF Head(ts) = Punct("]") THEN Parsed([t |-> "arr", v |-> acc], Tail(ts))
    ELSE LET r == ParseValue(ts)
         IN  IF ~r.ok THEN Fail ELSE ParseElems(r.rest, Append(acc, r.val))

Bad == [ok |-> FALSE, val |-> <<>>]
Good(val) == [ok |-> TRUE, val |-> val]

\* the values of the members of an object named name
Members(obj, name) ==
    LET idx == {i \in 1..Len(obj.v) : obj.v[i].k = name}
    IN  [n \in 1..Cardinality(idx) |->
            obj.v[CHOOSE i \in idx : Cardinality({j \in idx : j <= i}) = n].v]

\* the fields of a struct, as values in declaration order: <<>> when the value is no
\* struct (a field missing or twice, an array of another length, a scalar)
StructFields(val, names) ==
    IF val.t = "obj"
    THEN IF \A i \in 1..Len(names) : Len(Members(val, names[i])) = 1
         THEN [i \in 1..Len(names) |-> Members(val, names[i])[1]]
         ELSE <<>>
    ELSE IF val.t = "arr" /\ Len(val.v) = Len(names) THEN val.v
    ELSE <<>>

DecodeString(val) == IF val.t = "str" THEN Good(val.v) ELSE Bad

\* Vec<String>
DecodeStrings(val) ==
    IF val.t = "arr" /\ \A i \in 1..Len(val.v) : val.v[i].t = "str"
    THEN Good([i \in 1..Len(val.v) |-> val.v[i].v])
    ELSE Bad

\* the last member of an object with key k
LastMember(obj, k) == Members(obj, k)[Len(Members(obj, k))]

ObjKeys(obj) == {obj.v[i].k : i \in 1..Len(obj.v)}

\* HashMap<String, bool>
DecodeFlags(val) ==
    IF val.t = "obj" /\ \A i \in 1..Len(val.v) : val.v[i].v.t = "bool"
    THEN Good([k \in ObjKeys(val) |-> LastMember(val, k).v = "true"])
    ELSE Bad

\* RoomState { items, flags }
DecodeRoomState(val) ==
    LET fs == StructFields(val, <<"items", "flags">>)
    IN  IF fs = <<>> THEN Bad
        ELSE IF ~DecodeStrings(fs[1]).ok \/ ~DecodeFlags(fs[2]).ok THEN Bad
        ELSE Good([items |-> DecodeStrings(fs[1]).val, flags |-> DecodeFlags(fs[2]).val])

\* HashMap<String, RoomState>
DecodeRooms(val) ==
    IF val.t = "obj" /\ \A i \in 1..Len(val.v) : DecodeRoomState(val.v[i].v).ok
    THEN Good([k \in ObjKeys(val) |-> DecodeRoomState(LastMember(val, k)).val])
    ELSE Bad

\* Player { name, location, inventory }
DecodePlayer(val) ==
    LET fs == StructFields(val, <<"name", "location", "inventory">>)
    IN  IF fs = <<>> THEN Bad
        ELSE IF ~DecodeString(fs[1]).ok \/ ~DecodeString(fs[2]).ok
                \/ ~DecodeStrings(fs[3]).ok THEN Bad
        ELSE Good([name |-> DecodeString(fs[1]).val,
                   location |-> DecodeString(fs[2]).val,
                   inventory |-> DecodeStrings(fs[3]).val])

\* SaveData { player, rooms }
DecodeSaveData(val) ==
    LET fs == StructFields(val, <<"player", "rooms">>)
    IN  IF fs = <<>> THEN Bad
        ELSE IF ~DecodePlayer(fs[1]).ok \/ ~DecodeRooms(fs[2]).ok THEN Bad
        ELSE Good([player |-> DecodePlayer(fs[1]).val, rooms |-> DecodeRooms(fs[2]).val])

\* serde_json::from_str::<SaveData>: one value, nothing after it
from_str(data) ==
    LET r == ParseValue(data)
    IN  IF r.ok /\ r.rest = <<>> THEN DecodeSaveData(r.val) ELSE Bad

(***************************************************************************)
(* save and load.  fs::write creates (truncates) the file and then writes  *)
(* the text; the environment decides how far it gets: "ok", "open_err"     *)
(* (the file cannot be created and stays as it was), "write_err" (the      *)
(* write fails at the cut), "crash" (the process dies at the cut).         *)
(***************************************************************************)
SaveOutcomes == {"ok", "open_err", "write_err", "crash"}

\* where a write that does not complete may stop: at once or midway
Cuts == {"start", "middle"}

CutLen(data, cut) == IF cut = "start" THEN 0 ELSE Len(data) \div 2

\* fs::write(path, data) on a file holding old
fs_write(old, data, io, cut) ==
    CASE io = "ok" -> data
      [] io = "open_err" -> old
      [] OTHER -> SubSeq(data, 1, CutLen(data, cut))

\* Game::save: the new content of the file, the lines printed, the Result
save(p, rs, old, rev, io, cut) ==
    LET data == to_string_pretty(Snapshot(p, rs), rev)
    IN  [file |-> fs_write(old, data, io, cut),
         out |-> IF io = "ok" THEN <<L(MsgSaved)>> ELSE <<>>,
         ret |-> IF io = "ok" THEN "ok" ELSE "err",
         crash |-> io = "crash"]

LoadOutcomes == {"ok", "read_err"}

\* a load that brings back the items of the rooms and leaves their flags
ApplyRoomsItemsOnly(rs, snap) ==
    [k \in DOMAIN rs |->
        IF k \in DOMAIN snap
        THEN [rs[k] EXCEPT !.items = snap[k].items]
        ELSE rs[k]]

\* a load that empties the rooms the snapshot does not mention
ApplyRoomsClearMissing(rs, snap) ==
    [k \in DOMAIN rs |->
        IF k \in DOMAIN snap
        THEN [rs[k] EXCEPT !.items = snap[k].items, !.flags = snap[k].flags]
        ELSE [rs[k] EXCEPT !.items = <<>>]]

\* the for loop of load: the rooms of the snapshot that the world has are overwritten
ApplyRooms(rs, snap) ==
    [k \in DOMAIN rs |->
        IF k \in DOMAIN snap
        THEN [rs[k] EXCEPT !.items = snap[k].items, !.flags = snap[k].flags]
        ELSE rs[k]]

Err(p, rs, msg) ==
    [player |-> p, rooms |-> rs, out |-> <<>>, panic |-> FALSE, ret |-> "err", err |-> msg]

\* a load that assigns the player as soon as the player part is read, before the
\* rooms are
load_player_first(p, rs, content, io) ==
    IF content = NoFile THEN Err(p, rs, MsgNoFile)
    ELSE IF io = "read_err" THEN Err(p, rs, MsgReadError)
    ELSE LET snapshot == from_str(content)
             tree == ParseValue(content)
             fs == IF tree.ok THEN StructFields(tree.val, <<"player", "rooms">>) ELSE <<>>
         IN  IF ~snapshot.ok
             THEN IF fs # <<>> /\ DecodePlayer(fs[1]).ok
                  THEN Err(DecodePlayer(fs[1]).val, rs, MsgParseError)
                  ELSE Err(p, rs, MsgParseError)
             ELSE LET r == ThenLook(snapshot.val.player,
                                    ApplyRooms(rs, snapshot.val.rooms),
                                    <<L(MsgLoaded)>>)
                  IN  [player |-> r.player, rooms |-> r.rooms, out |-> r.out,
                       panic |-> r.panic, ret |-> IF r.panic THEN "none" ELSE "ok",
                       err |-> ""]

\* Game::load: player and rooms, the lines it printed, whether it panicked, its Result
load(p, rs, content, io) ==
    IF content = NoFile THEN Err(p, rs, MsgNoFile)
    ELSE IF io = "read_err" THEN Err(p, rs, MsgReadError)
    ELSE LET snapshot == from_str(content)
         IN  IF ~snapshot.ok THEN Err(p, rs, MsgParseError)
             ELSE LET r == ThenLook(snapshot.val.player,
                                    ApplyRooms(rs, snapshot.val.rooms),
                                    <<L(MsgLoaded)>>)
                  IN  [player |-> r.player, rooms |-> r.rooms, out |-> r.out,
                       panic |-> r.panic, ret |-> IF r.panic THEN "none" ELSE "ok",
                       err |-> ""]

(***************************************************************************)
(* Contents of a save.json that this run did not write.                    *)
(***************************************************************************)
\* a well-formed snapshot whose player stands in a room the world does not have
ForeignBadLocation ==
    to_string_pretty(
        [player |-> [name |-> "Hero", location |-> "nowhere", inventory |-> <<"torch">>],
         rooms |-> [k \in {"cave_entrance"} |-> [items |-> <<"note">>, flags |-> EmptyMap]]],
        FALSE)

\* a well-formed snapshot of another version of the content: one room of the world
\* (unlocked, holding an item twice), one room the world does not have, and a field
\* the struct does not have
ForeignOtherVersion ==
    <<Punct("{"), Str("version"), Str("2"), Str("rooms"), Punct("{"),
      Str("attic")>>
    \o SerRoomState([items |-> <<"trunk">>, flags |-> EmptyMap], <<>>)
    \o <<Str("narrow_passage")>>
    \o SerRoomState([items |-> <<"note", "note">>,
                     flags |-> [f \in {"locked_north"} |-> FALSE]], <<"locked_north">>)
    \o <<Punct("}"), Str("player")>>
    \o SerPlayer([name |-> "Ana", location |-> "narrow_passage", inventory |-> <<>>])
    \o <<Punct("}")>>

\* a snapshot whose player has no location
ForeignMissingField ==
    <<Punct("{"), Str("player"), Punct("{"), Str("name"), Str("Hero"),
      Str("inventory")>> \o SerStrings(<<"torch">>)
    \o <<Punct("}"), Str("rooms"), Punct("{"), Punct("}"), Punct("}")>>

\* a snapshot whose inventory is a string, not a list
ForeignWrongType ==
    <<Punct("{"), Str("player"), Punct("{"), Str("name"), Str("Hero"),
      Str("location"), Str("ancient_chamber"), Str("inventory"), Str("torch"),
      Punct("}"), Str("rooms"), Punct("{"), Punct("}"), Punct("}")>>

\* a snapshot whose player is complete and whose room has no flags
ForeignBadRooms ==
    <<Punct("{"), Str("player")>>
    \o SerPlayer([name |-> "Ana", location |-> "ancient_chamber", inventory |-> <<"note">>])
    \o <<Str("rooms"), Punct("{"), Str("cave_entrance"), Punct("{"), Str("items")>>
    \o SerStrings(<<"torch">>) \o <<Punct("}"), Punct("}"), Punct("}")>>

\* a well-formed snapshot whose player carries the altar, twice
ForeignCarriedAltar ==
    to_string_pretty(
        [player |-> [name |-> "Hero", location |-> "ancient_chamber",
                     inventory |-> <<"altar", "altar">>],
         rooms |-> [k \in {"ancient_chamber"} |-> [items |-> <<>>, flags |-> EmptyMap]]],
        FALSE)

ForeignFiles ==
    {ForeignBadLocation, ForeignOtherVersion, ForeignMissingField, ForeignWrongType,
     ForeignBadRooms, ForeignCarriedAltar}

(***************************************************************************)
(* The process: Game::new, then loop_run reading one line per step.        *)
(***************************************************************************)
DirArgs == {<<>>, <<"north">>, <<"south">>, <<"east">>, <<"NORTH">>}

TokArgs == {<<>>, <<"torch">>, <<"key_gate">>, <<"note">>, <<"altar">>,
            <<"TORCH">>, <<"Antorcha">>, <<"rock">>}

\* Game::new; loop_run greets and looks before it reads the first line
NewPlayer == [name |-> "Hero", location |-> "cave_entrance", inventory |-> <<>>]

NewRooms(w) ==
    [k \in DOMAIN WorldOf(w).rooms |->
        [items |-> WorldOf(w).rooms[k].items, flags |-> WorldOf(w).rooms[k].flags]]

InitIn(ws, files, n) ==
    /\ world \in ws
    /\ player = NewPlayer
    /\ rooms = NewRooms(world)
    /\ running = TRUE
    /\ pc = "loop"
    /\ file \in files
    /\ out = <<L(MsgWelcome)>> \o cmd_look(NewPlayer, NewRooms(world))
    /\ res = "none"
    /\ stdin = n
    /\ saved = <<>>

\* main() in a directory with no save.json
Init == InitIn({"authored"}, {NoFile}, MaxCmds)

\* Game::new on any of the worlds
InitW == InitIn(Worlds, {NoFile}, MaxCmdsW)

\* main() in a directory where someone else may have left a save.json
InitEnv == InitIn({"authored"}, ForeignFiles \cup {NoFile}, MaxCmdsEnv)

\* while self.running: one more line is read
Reading == pc = "loop" /\ running /\ stdin > 0

\* the loop applies what a handler did to the game
Apply(r) ==
    /\ player' = r.player
    /\ rooms' = r.rooms
    /\ out' = r.out
    /\ pc' = IF r.panic THEN "panicked" ELSE pc
    /\ res' = "none"
    /\ stdin' = stdin - 1
    /\ UNCHANGED <<world, running, file, saved>>

Look ==
    /\ Reading
    /\ Apply(ThenLook(player, rooms, <<>>))

Go(dir) ==
    /\ Reading
    /\ Apply(cmd_go(player, rooms, dir))

Take(tok) ==
    /\ Reading
    /\ Apply(cmd_take(player, rooms, tok))

Drop(tok) ==
    /\ Reading
    /\ Apply(cmd_drop(player, rooms, tok))

Use(tok) ==
    /\ Reading
    /\ Apply(cmd_use(player, rooms, tok))

Inventory ==
    /\ Reading
    /\ Apply(cmd_inventory(player, rooms))

Help ==
    /\ Reading
    /\ Apply(cmd_help(player, rooms))

\* "save" => { let _ = self.save("save.json"); }
Save ==
    /\ Reading
    /\ \E rev \in BOOLEAN, io \in SaveOutcomes, cut \in Cuts :
         LET r == save(player, rooms, file, rev, io, cut)
         IN  /\ io \in {"ok", "open_err"} => cut = "start"
             /\ io = "open_err" => ~rev
             /\ file' = r.file
             /\ out' = r.out
             /\ res' = r.ret
             /\ pc' = IF r.crash THEN "crashed" ELSE pc
             /\ stdin' = stdin - 1
             /\ saved' = IF r.ret = "ok"
                         THEN <<[player |-> player, rooms |-> rooms]>>
                         ELSE saved
             /\ UNCHANGED <<world, player, rooms, running>>

\* "load" => { if let Err(e) = self.load("save.json") { println!("{e}"); } }
Load ==
    /\ Reading
    /\ \E io \in LoadOutcomes :
         LET r == load(player, rooms, file, io)
         IN  /\ io = "read_err" => file # NoFile
             /\ player' = r.player
             /\ rooms' = r.rooms
             /\ out' = IF r.ret = "err" THEN <<L(r.err)>> ELSE r.out
             /\ res' = r.ret
             /\ pc' = IF r.panic THEN "panicked" ELSE pc
             /\ stdin' = stdin - 1
             /\ UNCHANGED <<world, running, file, saved>>

\* "quit" | "exit": running becomes false and the while loop ends
Quit ==
    /\ Reading
    /\ running' = FALSE
    /\ pc' = "done"
    /\ out' = <<L(MsgBye)>>
    /\ res' = "none"
    /\ stdin' = stdin - 1
    /\ UNCHANGED <<world, player, rooms, file, saved>>

\* an unknown verb that ends the session
UnknownEndsSession ==
    /\ Reading
    /\ running' = FALSE
    /\ pc' = "done"
    /\ out' = <<L(MsgUnknown)>>
    /\ res' = "none"
    /\ stdin' = stdin - 1
    /\ UNCHANGED <<world, player, rooms, file, saved>>

\* any other verb
Unknown ==
    /\ Reading
    /\ Apply(Result(player, rooms, <<L(MsgUnknown)>>))

\* an empty line (also what read_line yields at end of input): continue
EmptyLine ==
    /\ Reading
    /\ Apply(Result(player, rooms, <<>>))

\* read_line failed: break
ReadError ==
    /\ Reading
    /\ pc' = "done"
    /\ out' = <<L(MsgLeaving)>>
    /\ res' = "none"
    /\ stdin' = stdin - 1
    /\ UNCHANGED <<world, player, rooms, running, file, saved>>

Next ==
    \/ Look
    \/ \E dir \in DirArgs : Go(dir)
    \/ \E tok \in TokArgs : Take(tok)
    \/ \E tok \in TokArgs : Drop(tok)
    \/ \E tok \in TokArgs : Use(tok)
    \/ Inventory
    \/ Help
    \/ Save
    \/ Load
    \/ Quit
    \/ Unknown
    \/ EmptyLine
    \/ ReadError

Spec == Init /\ [][Next]_vars

SpecW == InitW /\ [][Next]_vars

SpecEnv == InitEnv /\ [][Next]_vars

(***************************************************************************)
(* The claims.                                                             *)
(***************************************************************************)
Count(list, x) == Cardinality({i \in 1..Len(list) : list[i] = x})

\* how often item key k occurs in the rooms and in the inventory together
RECURSIVE CountInRooms(_, _)
CountInRooms(ks, k) ==
    IF ks = {} THEN 0
    ELSE LET r == CHOOSE r \in ks : TRUE
         IN  Count(rooms[r].items, k) + CountInRooms(ks \ {r}, k)

Occurrences(k) == Count(player.inventory, k) + CountInRooms(DOMAIN rooms, k)

\* C1: from the authored world, with load reading only what save wrote in this run,
\* every item key of the world occurs exactly once in the rooms' items lists and the
\* inventory taken together: it is in exactly one container, once.
C1_ExactlyOneContainer == \A k \in DOMAIN W.items : Occurrences(k) = 1

\* C1 witness: the torch was carried to another room, dropped, and a load succeeded
C1_Witness ==
    /\ res = "ok"
    /\ out[1] = L(MsgLoaded)
    /\ Count(rooms["narrow_passage"].items, "torch") = 1

\* C2: player.location names a room of the world in every reachable state, whatever
\* well-formed snapshot a load read.
C2_LocationExists == player.location \in DOMAIN rooms

\* the claim's terms for C3: the exit exists, its lock flag is true, and no carried
\* item has an unlocks effect that is exactly <room key>:<direction>
LockedWithoutKey(direction) ==
    /\ direction \in DOMAIN W.rooms[player.location].exits
    /\ LockedFlag(direction) \in DOMAIN rooms[player.location].flags
    /\ rooms[player.location].flags[LockedFlag(direction)]
    /\ \A k \in Range(player.inventory) :
          k \in DOMAIN W.items /\ "unlocks" \in DOMAIN W.items[k].effects
          => W.items[k].effects["unlocks"] # <<player.location, ":", direction>>

\* C3: a go toward a locked exit without the exactly matching key (no key, or a key
\* for another room or direction) is refused: the location does not change and the
\* lock flag stays true.
C3_LockedGoRefused ==
    [][\A dir \in DirArgs \ {<<>>} :
          (LockedWithoutKey(Lower(dir[1])) /\ Go(dir))
          => /\ player' = player
             /\ rooms' = rooms
             /\ rooms'[player.location].flags[LockedFlag(Lower(dir[1]))]
             /\ out' = <<L(MsgBlocked)>>]_vars

\* C3 witness: a go was refused while the player carried a key for another exit
C3_Witness ==
    /\ world = "keys"
    /\ out = <<L(MsgBlocked)>>
    /\ \E k \in Range(player.inventory) : "unlocks" \in DOMAIN W.items[k].effects

\* the lock flags that are false in the rooms rs
LockFlags == {LockedFlag(d) : d \in {"north", "south"}}

Cleared(rs) ==
    {kf \in (DOMAIN rs) \X LockFlags :
        kf[2] \in DOMAIN rs[kf[1]].flags /\ ~rs[kf[1]].flags[kf[2]]}

\* the step is a load that succeeded: it alone prints the loaded line
LoadedStep == res' = "ok" /\ out' # <<>> /\ out'[1] = L(MsgLoaded)

\* C4 as claimed: a lock flag that is false is false in every later state, whatever
\* command follows, save and load included.
C4_NeverLockedAgain == [][Cleared(rooms) \subseteq Cleared(rooms')]_vars

\* C4 amended: a lock flag that is false stays false through every step that is not
\* a successful load.
C4_LockedAgainOnlyByLoad ==
    [][~LoadedStep => Cleared(rooms) \subseteq Cleared(rooms')]_vars

\* C4 witness: the gate is unlocked and the key has been dropped
C4_Witness ==
    /\ <<"narrow_passage", "locked_north">> \in Cleared(rooms)
    /\ out = <<LA(MsgDropped, <<"llave vieja">>)>>

\* the claim's terms for C5: the current room is dark and no carried item is a light
DarkAndNoLight ==
    /\ "dark" \in DOMAIN rooms[player.location].flags
    /\ rooms[player.location].flags["dark"]
    /\ \A k \in Range(player.inventory) :
          k \in DOMAIN W.items => "lights" \notin DOMAIN W.items[k].effects

\* the last command ended in a look: only look prints the exits line
LookShown == out # <<>> /\ out[Len(out)].msg \in {MsgExits, MsgNoExits}

Msgs(ls) == {ls[i].msg : i \in 1..Len(ls)}

\* C5: every look (direct, after go, after use of a light, after load, at start) shows
\* the restricted view (the dark line and the exits, no name, description or items)
\* exactly when the current room is dark and no carried item has a lights effect, and
\* the full view of the current room otherwise.
C5_LookDependsOnLight ==
    LookShown =>
        /\ DarkAndNoLight <=> MsgDark \in Msgs(out)
        /\ DarkAndNoLight => Msgs(out) \cap {"name", "desc", MsgSeeHere} = {}
        /\ ~DarkAndNoLight =>
              /\ LA("name", <<W.rooms[player.location].name>>) \in Range(out)
              /\ rooms[player.location].items # <<>> <=> MsgSeeHere \in Msgs(out)

\* C5 witness: the torch lies on the floor of the dark room and the look is restricted
C5_Witness ==
    /\ LookShown
    /\ MsgDark \in Msgs(out)
    /\ player.location = "narrow_passage"
    /\ Count(rooms["narrow_passage"].items, "torch") = 1

\* the last command was a save that succeeded
JustSaved == res = "ok" /\ out = <<L(MsgSaved)>>

\* C6: a save directly followed by a successful load leaves the player (name,
\* location, inventory in order) and every room's items (in order) and flags as they
\* were before the save.
C6_SaveLoadRoundTrip ==
    [][(JustSaved /\ LoadedStep) => (player' = player /\ rooms' = rooms)]_vars

\* C6 witness: a load succeeded on the file of the state it restored, with a carried
\* item, an item moved between rooms and the gate unlocked
C6_Witness ==
    /\ res = "ok"
    /\ out[1] = L(MsgLoaded)
    /\ from_str(file).ok
    /\ from_str(file).val.player = player
    /\ player.inventory # <<>>
    /\ ~rooms["narrow_passage"].flags["locked_north"]

\* the step is a load that failed
LoadFailedStep ==
    /\ res' = "err"
    /\ stdin' # stdin
    /\ out' \in {<<L(MsgNoFile)>>, <<L(MsgParseError)>>, <<L(MsgReadError)>>}

\* C7: a load that fails (no file, a file that cannot be read, a content that is no
\* well-formed snapshot with all required fields) leaves the player and every room's
\* items and flags as they were.
C7_FailedLoadChangesNothing ==
    [][LoadFailedStep => (player' = player /\ rooms' = rooms /\ pc' = pc)]_vars

\* C7 witness: a load failed to parse after the game had moved on from its start
C7_Witness ==
    /\ res = "err"
    /\ out = <<L(MsgParseError)>>
    /\ player.inventory # <<>>
    /\ file \in ForeignFiles

\* C8: the file at the path holds, at every point, a complete snapshot (the previous
\* one or the new one) or does not exist: never an empty or truncated content.
C8_FileNeverPartial == file = NoFile \/ from_str(file).ok

\* C9: a save that fails is reported (one line of error text is printed, as for a
\* failed load), and leaves the engine state as it was.
C9_FailedSaveReported ==
    [][(Save /\ res' = "err" /\ pc' = "loop")
        => (Len(out') = 1 /\ player' = player /\ rooms' = rooms /\ running' = running)]_vars

\* the lines that report the errors of C10
ErrorLines ==
    {MsgGoUsage, MsgTakeUsage, MsgDropUsage, MsgUseUsage, MsgNoExit, MsgNotHere,
     MsgNotPortable, MsgNotCarried, MsgBadKey, MsgUnknown}

\* C10: a command that ends in a reported error (a missing argument, no such exit, an
\* item that is not here, not portable or not carried, an unlock tag that is not two
\* parts, an unknown verb) leaves the player, every room's items and flags and the
\* running flag as they were, and the loop goes on.
C10_ErrorChangesNothing ==
    [][(stdin' # stdin /\ Len(out') = 1 /\ out'[1].msg \in ErrorLines)
        => /\ player' = player
           /\ rooms' = rooms
           /\ running' = running
           /\ pc' = "loop"
           /\ file' = file]_vars

\* C10 witness: the use of a carried key whose tag does not split in two was reported
C10_Witness ==
    /\ out = <<L(MsgBadKey)>>
    /\ player.inventory # <<>>
    /\ pc = "loop"

\* C11: in every reachable state the inventory holds only portable items and no key
\* twice (take appends an item only when it is portable; nothing else may bring an
\* item into the inventory that breaks this)
C11_InventoryPortableOnce ==
    \A i \in 1..Len(player.inventory) :
        /\ player.inventory[i] \in DOMAIN W.items
        /\ W.items[player.inventory[i]].portable
        /\ Count(player.inventory, player.inventory[i]) = 1

\* the carried item with key k is a key for exit d of room r and gives no light
IsKeyFor(k, r, d) ==
    /\ k \in Range(player.inventory)
    /\ "lights" \notin DOMAIN W.items[k].effects
    /\ "unlocks" \in DOMAIN W.items[k].effects
    /\ W.items[k].effects["unlocks"] = UnlockTag(r, d)

\* the rooms with flag f of room r set to FALSE and everything else as it is
WithFlagFalse(r, f) ==
    [k \in DOMAIN rooms |->
        IF k = r
        THEN [items |-> rooms[k].items,
              flags |-> [g \in DOMAIN rooms[k].flags \cup {f} |->
                            IF g = f THEN FALSE ELSE rooms[k].flags[g]]]
        ELSE rooms[k]]

\* C12: use of a carried item whose effect is unlocks "<room>:<dir>" (and not lights):
\* in the named room with locked_<dir> true the flag becomes false and nothing else
\* changes; in the named room with the flag false or absent nothing changes and
\* "nothing to unlock" is reported (so a second use after a successful one changes
\* nothing); in any other room no flag of any room changes
C12_UseUnlocks ==
    [][\A k \in DOMAIN W.items, r \in DOMAIN W.rooms, d \in {"north", "south"} :
          (IsKeyFor(k, r, d) /\ Use(<<k>>)) =>
             /\ player' = player
             /\ IF r # player.location
                THEN rooms' = rooms /\ out' = <<L(MsgNotWorkHere)>>
                ELSE IF FlagOr(rooms[r].flags, LockedFlag(d))
                THEN /\ rooms' = WithFlagFalse(r, LockedFlag(d))
                     /\ out' = <<LA(MsgUseUnlocked, <<W.items[k].name, d>>)>>
                ELSE rooms' = rooms /\ out' = <<L(MsgNothingToUnlock)>>]_vars

\* a second use of the key right after the one that unlocked the gate
C12_Witness ==
    /\ out = <<L(MsgNothingToUnlock)>>
    /\ "key_gate" \in Range(player.inventory)
    /\ player.location = "narrow_passage"
    /\ rooms["narrow_passage"].flags["locked_north"] = FALSE

\* some carried item is a key for exactly exit d of the current room
HoldsKeyFor(d) ==
    \E i \in 1..Len(player.inventory) :
        LET e == W.items[player.inventory[i]].effects
        IN  "unlocks" \in DOMAIN e /\ e["unlocks"] = UnlockTag(player.location, d)

\* C13: go toward a locked exit while holding an item whose unlocks value is exactly
\* "<current room>:<direction>" succeeds in that one command: the flag is false
\* afterwards, the unlocked message is printed, the player is in the destination
\* and look is run on the destination; go toward an exit that is not locked moves
\* the player and runs look without the unlocked message
C13_GoUnlocksAndMoves ==
    [][\A dir \in DirArgs \ {<<>>} :
          LET d == Lower(dir[1])
              exits == W.rooms[player.location].exits
              locked == FlagOr(rooms[player.location].flags, LockedFlag(d))
          IN  (d \in DOMAIN exits /\ Go(dir) /\ (locked => HoldsKeyFor(d))) =>
                 /\ player' = [player EXCEPT !.location = exits[d]]
                 /\ pc' = pc
                 /\ IF locked
                    THEN /\ rooms' = WithFlagFalse(player.location, LockedFlag(d))
                         /\ out' = <<L(MsgGoUnlocked)>> \o cmd_look(player', rooms')
                    ELSE /\ rooms' = rooms
                         /\ out' = cmd_look(player', rooms')
                         /\ MsgGoUnlocked \notin Msgs(out')]_vars

\* the player walked through the gate with the key in hand, in one command
C13_Witness ==
    /\ out # <<>> /\ out[1] = L(MsgGoUnlocked)
    /\ player.location = "ancient_chamber"
    /\ rooms["narrow_passage"].flags["locked_north"] = FALSE
    /\ LA("name", <<W.rooms["ancient_chamber"].name>>) \in Range(out)

\* C14: a successful load replaces the player wholesale; every room of the snapshot
\* that exists in the world gets its items and flags from the snapshot; room keys of
\* the snapshot that the world does not have are ignored without error; rooms of the
\* world that the snapshot does not have stay as they were
C14_LoadFrame ==
    [][LoadedStep =>
          LET snapshot == from_str(file).val
          IN  /\ player' = snapshot.player
              /\ DOMAIN rooms' = DOMAIN rooms
              /\ \A k \in DOMAIN rooms :
                    IF k \in DOMAIN snapshot.rooms
                    THEN /\ rooms'[k].items = snapshot.rooms[k].items
                         /\ rooms'[k].flags = snapshot.rooms[k].flags
                    ELSE rooms'[k] = rooms[k]]_vars

\* the snapshot of the other version was loaded after the torch was taken: the player
\* and narrow_passage come from the snapshot, cave_entrance is as the take left it
C14_Witness ==
    /\ res = "ok" /\ out # <<>> /\ out[1] = L(MsgLoaded)
    /\ file = ForeignOtherVersion
    /\ player = [name |-> "Ana", location |-> "narrow_passage", inventory |-> <<>>]
    /\ rooms["narrow_passage"].items = <<"note", "note">>
    /\ rooms["narrow_passage"].flags = [f \in {"locked_north"} |-> FALSE]
    /\ rooms["cave_entrance"].items = <<"note">>
    /\ DOMAIN rooms = DOMAIN W.rooms

\* the list without its element at position i
Without(list, i) == [j \in 1..(Len(list) - 1) |-> IF j < i THEN list[j] ELSE list[j + 1]]

\* C15: a successful take followed at once by a drop of the same item leaves the
\* inventory as it was before the take and the room's items with the same members,
\* the item now last and the others in their order; nothing else differs
C15_TakeThenDrop ==
    \A tok \in TokArgs \ {<<>>} :
        LET t == cmd_take(player, rooms, tok)
            d == cmd_drop(t.player, t.rooms, tok)
            here == rooms[player.location].items
        IN  (pc = "loop" /\ t.out # <<>> /\ t.out[1].msg = MsgTook) =>
               \E i \in 1..Len(here) :
                  /\ t.player.inventory = Append(player.inventory, here[i])
                  /\ t.rooms[player.location].items = Without(here, i)
                  /\ d.out = <<LA(MsgDropped, t.out[1].arg)>>
                  /\ d.player = player
                  /\ d.rooms[player.location].items = Append(Without(here, i), here[i])
                  /\ Range(d.rooms[player.location].items) = Range(here)
                  /\ \A k \in DOMAIN rooms :
                        /\ d.rooms[k].flags = rooms[k].flags
                        /\ k # player.location => d.rooms[k] = rooms[k]

\* the note was taken and dropped again where the torch lies: it is last now
C15_Witness ==
    /\ out = <<LA(MsgDropped, <<W.items["note"].name>>)>>
    /\ player = NewPlayer
    /\ rooms["cave_entrance"].items = <<"torch", "note">>

\* the full view of room k is what was printed last
FullViewOf(ls, k) ==
    /\ LA("name", <<W.rooms[k].name>>) \in Range(ls)
    /\ LA("desc", <<W.rooms[k].desc>>) \in Range(ls)
    /\ MsgDark \notin Msgs(ls)

GateLocked == FlagOr(rooms["narrow_passage"].flags, "locked_north")

\* C16: in the authored world, from the start: take torch moves the torch to the
\* inventory; go north then leads to narrow_passage and shows the full view; go north
\* from there is refused as blocked as long as locked_north is true and key_gate is
\* not carried; after take key_gate, use key_gate sets locked_north to false, and the
\* next go north leads to ancient_chamber
C16_AuthoredScenario ==
    [][/\ (player = NewPlayer /\ rooms = NewRooms("authored") /\ Take(<<"torch">>)) =>
            /\ player'.inventory = <<"torch">>
            /\ rooms'["cave_entrance"].items = <<"note">>
       /\ (player.location = "cave_entrance" /\ player.inventory = <<"torch">>
             /\ Go(<<"north">>)) =>
            /\ player'.location = "narrow_passage"
            /\ FullViewOf(out', "narrow_passage")
       /\ (player.location = "narrow_passage" /\ GateLocked
             /\ "key_gate" \notin Range(player.inventory) /\ Go(<<"north">>)) =>
            /\ out' = <<L(MsgBlocked)>>
            /\ player' = player /\ rooms' = rooms
       /\ (player.location = "narrow_passage" /\ GateLocked
             /\ "key_gate" \in Range(rooms["narrow_passage"].items)
             /\ Take(<<"key_gate">>)) =>
            /\ "key_gate" \in Range(player'.inventory)
            /\ GateLocked'
       /\ (player.location = "narrow_passage" /\ GateLocked
             /\ "key_gate" \in Range(player.inventory) /\ Use(<<"key_gate">>)) =>
            /\ ~GateLocked'
            /\ player' = player
       /\ (player.location = "narrow_passage" /\ ~GateLocked /\ Go(<<"north">>)) =>
            /\ player'.location = "ancient_chamber"
            /\ ~GateLocked']_vars

\* the end of the scenario: in the chamber with torch and key, the gate opened by use
\* and not by the go that walked through it
C16_Witness ==
    /\ player.location = "ancient_chamber"
    /\ player.inventory = <<"torch", "key_gate">>
    /\ ~GateLocked
    /\ out # <<>> /\ out[1] # L(MsgGoUnlocked)
    /\ FullViewOf(out, "ancient_chamber")
    /\ stdin = MaxCmds - 6

C18_UseDispatchOrder ==
    [][\A k \in DOMAIN W.items :
          (k \in Range(player.inventory) /\ Use(<<k>>)) =>
             LET effects == W.items[k].effects
             IN  /\ "lights" \in DOMAIN effects =>
                       /\ player' = player /\ rooms' = rooms
                       /\ out' = <<LA(MsgRaise, <<W.items[k].name>>)>>
                                    \o cmd_look(player, rooms)
                 /\ ("lights" \notin DOMAIN effects /\ "unlocks" \notin DOMAIN effects) =>
                       /\ player' = player /\ rooms' = rooms
                       /\ out' = <<L(MsgNothing)>>]_vars

\* the torch that is also the key of the gate was raised in front of the locked
\* gate: the gate is still locked
C18_Witness ==
    /\ world = "lamp"
    /\ out # <<>> /\ out[1] = LA(MsgRaise, <<W.items["torch"].name>>)
    /\ W.items["torch"].effects["unlocks"] = UnlockTag("narrow_passage", "north")
    /\ player.location = "narrow_passage"
    /\ rooms["narrow_passage"].flags["locked_north"] = TRUE

\* an item whose only effect has a name the engine does not know was used
C18_WitnessUnknownEffect ==
    /\ world = "lamp"
    /\ out = <<L(MsgNothing)>>
    /\ "key_gate" \in Range(player.inventory)
    /\ "note" \notin Range(player.inventory)

\* the step was a save command (it returned Ok and printed, or its error was dropped)
SaveStep ==
    /\ stdin' # stdin
    /\ \/ res' = "ok" /\ out' = <<L(MsgSaved)>>
       \/ res' = "err" /\ out' = <<>>

\* the flags <<room, flag>> that the step changed, added or removed
ChangedFlags ==
    {kf \in (DOMAIN rooms) \X (LockFlags \cup {"dark"}) :
        \/ (kf[2] \in DOMAIN rooms[kf[1]].flags) # (kf[2] \in DOMAIN rooms'[kf[1]].flags)
        \/ /\ kf[2] \in DOMAIN rooms[kf[1]].flags
           /\ kf[2] \in DOMAIN rooms'[kf[1]].flags
           /\ rooms[kf[1]].flags[kf[2]] # rooms'[kf[1]].flags[kf[2]]}

SameItems == \A k \in DOMAIN rooms : rooms'[k].items = rooms[k].items

OtherRoomsSame == \A k \in DOMAIN rooms : k # player.location => rooms'[k] = rooms[k]

\* C19: look, inventory, help and save change nothing of the game; go changes only
\* the player's location and at most the one locked_<dir> flag of the room left;
\* take and drop change only the items of the current room and the inventory; use
\* changes at most one locked flag of the current room; and no command other than
\* load changes a dark flag, sets a flag to true, or changes the items or flags of a
\* room other than the current one
C19_CommandFrames ==
    [][/\ DOMAIN rooms' = DOMAIN rooms
       /\ \A k \in DOMAIN rooms : DOMAIN rooms'[k].flags \subseteq LockFlags \cup {"dark"}
       /\ (Look \/ Inventory \/ Help \/ SaveStep) =>
             player' = player /\ rooms' = rooms /\ running' = running
       /\ \A dir \in DirArgs :
             Go(dir) =>
                /\ player' = [player EXCEPT !.location = player'.location]
                /\ SameItems
                /\ ChangedFlags \subseteq
                      IF dir = <<>> THEN {}
                      ELSE {<<player.location, LockedFlag(Lower(dir[1]))>>}
       /\ \A tok \in TokArgs :
             (Take(tok) \/ Drop(tok)) =>
                /\ player' = [player EXCEPT !.inventory = player'.inventory]
                /\ ChangedFlags = {}
                /\ OtherRoomsSame
       /\ \A tok \in TokArgs :
             Use(tok) =>
                /\ player' = player
                /\ SameItems
                /\ Cardinality(ChangedFlags) <= 1
                /\ \A kf \in ChangedFlags :
                      kf[1] = player.location /\ kf[2] \in LockFlags
       /\ ~(out' # <<>> /\ out'[1] = L(MsgLoaded)) =>
             /\ OtherRoomsSame
             /\ \A kf \in ChangedFlags :
                   /\ kf[2] # "dark"
                   /\ kf[2] \in DOMAIN rooms'[kf[1]].flags
                   /\ ~rooms'[kf[1]].flags[kf[2]]]_vars

\* a use has just cleared the lock of the gate: the one flag a use may change
C19_Witness ==
    /\ out = <<LA(MsgUseUnlocked, <<W.items["key_gate"].name, "north">>)>>
    /\ rooms["narrow_passage"].flags =
          [f \in {"dark", "locked_north"} |-> f = "dark"]
    /\ rooms["cave_entrance"] = NewRooms(world)["cave_entrance"]
    /\ rooms["ancient_chamber"] = NewRooms(world)["ancient_chamber"]

\* C20: after a save that succeeded, whatever go, take, drop and use follow, a later
\* successful load of that path sets the player and every room's items and flags back
\* to what they were at the moment of the save; load does not touch the running flag
C20_LoadRestoresSavedState ==
    [][(LoadedStep /\ saved # <<>>) =>
          /\ player' = saved[1].player
          /\ rooms' = saved[1].rooms
          /\ running' = running]_vars

\* the last line of the input was a load that brought back the start of the game,
\* saved earlier in the run
C20_Witness ==
    /\ res = "ok" /\ out # <<>> /\ out[1] = L(MsgLoaded)
    /\ saved = <<[player |-> NewPlayer, rooms |-> NewRooms("authored")]>>
    /\ player = NewPlayer
    /\ rooms = NewRooms("authored")
    /\ running
    /\ stdin = 0

====
